---- MODULE Spec2Model ----
(***************************************************************************)
(* Model of the Extractor class of extractor.cpp: extract(), showResult()  *)
(* and findSubImages().  One Extractor object is modelled; its fields are  *)
(* the variables, and one action models one call of extract().             *)
(*                                                                         *)
(* An image is modelled by its size and by the list of contours that the   *)
(* OpenCV pipeline (cvtColor, blur, Canny, findContours, approxPolyDP,     *)
(* boundingRect) obtains from its top-left region.  A pixel of the region  *)
(* image is a non-zero value determined by its position; 0 is the value of *)
(* a zeroed (masked-out) pixel.  Positions are pairs <<x, y>>.  The input  *)
(* is taken to be large enough for a non-empty region.                     *)
(***************************************************************************)
EXTENDS Integers, Sequences, FiniteSets, TLC

\* ------------------------------------------------------------------ bounds
MaxCalls == 2          \* extract() calls made on the instance
MaxContours == 2       \* contours found in one region image
RngPeriod == 4         \* the generator's state is counted modulo this

\* ---------------------------------------------------------- header values
\* extractor.h: the tolerance field `error` and the initial rank position.
ERROR_MARGIN == 1
NoPosition == 0 - 1

\* ------------------------------------------------------------ cv:: values
Pt(x, y) == [x |-> x, y |-> y]

\* cv::Rect: tl() is inclusive, br() is exclusive.
Rect(x0, y0, x1, y1) == [tl |-> Pt(x0, y0), br |-> Pt(x1, y1)]

\* The positions a rectangle covers.
RectPositions(r) == {<<x, y>> : x \in r.tl.x .. r.br.x - 1, y \in r.tl.y .. r.br.y - 1}

\* A default-constructed cv::Mat.
EmptyMat == [rect |-> Rect(0, 0, 0, 0), pix |-> <<>>]

\* cv::Mat::empty()
Empty(m) == RectPositions(m.rect) = {}

\* Whether position <<x, y>> is on or inside the polygon of the given shape
\* and corners (cv::pointPolygonTest >= 0): "box" joins the four corners of
\* the rectangle, "tri" its top-left, bottom-left and bottom-right corners.
InsideAt(shape, tl, br, x, y) ==
    /\ tl.x <= x /\ x < br.x
    /\ tl.y <= y /\ y < br.y
    /\ \/ shape = "box"
       \/ (x - tl.x) * (br.y - tl.y - 1) <= (y - tl.y) * (br.x - tl.x - 1)

\* The positions of the polygon's outline: those on or inside it with a
\* 4-neighbour outside it.
Outline(shape, tl, br) ==
    {p \in RectPositions([tl |-> tl, br |-> br]) :
        /\ InsideAt(shape, tl, br, p[1], p[2])
        /\ \/ ~ InsideAt(shape, tl, br, p[1] + 1, p[2])
           \/ ~ InsideAt(shape, tl, br, p[1] - 1, p[2])
           \/ ~ InsideAt(shape, tl, br, p[1], p[2] + 1)
           \/ ~ InsideAt(shape, tl, br, p[1], p[2] - 1)}

\* A contour polygon (approxPolyDP's output): its shape, the corners of its
\* bounding rectangle and the positions its outline passes through.
Contour(shape, x0, y0, x1, y1) ==
    [shape |-> shape, tl |-> Pt(x0, y0), br |-> Pt(x1, y1),
     outline |-> Outline(shape, Pt(x0, y0), Pt(x1, y1))]

\* cv::boundingRect of a contour polygon.
boundingRect(c) == [tl |-> c.tl, br |-> c.br]

\* The positions on or inside the polygon.
Inside(c) == {p \in RectPositions(boundingRect(c)) : InsideAt(c.shape, c.tl, c.br, p[1], p[2])}

\* cv::drawContours(mask, polys, i, Scalar(255), 0): thickness 0 draws the
\* outline of polygon i (a negative thickness would fill it).  The mask is
\* the set of its non-zero positions.
drawContours(mask, c) == mask \cup c.outline

\* ------------------------------------------------------------ input images
\* The contours the catalogue draws from, in a card image of 32 x 49 whose
\* region is 8 x 14: area 112, area/10 = 11, area/25 = 4, 3*cols/4 = 6,
\* 3*rows/4 = 10, cols/6 = 1.
Catalogue ==
    << Contour("box", 1, 1, 3, 7),     \* 2 x 6, area 12: passes the rank filter
       Contour("tri", 4, 1, 6, 10),    \* 2 x 9, ratio 9/2 = 4: br = (6, 10), both rank position bounds met exactly
       Contour("box", 0, 1, 3, 11),    \* 3 x 10: br.y = 11, one beyond the rank bound
       Contour("tri", 1, 9, 3, 12),    \* 2 x 3, area 6: suit-sized, below both
       Contour("box", 1, 2, 3, 7),     \* 2 x 5, area 10: the first one shrunk below area/10
       Contour("box", 4, 0, 6, 10) >>  \* 2 x 10: ratio 5

Injective(s) == \A i, j \in DOMAIN s : i # j => s[i] # s[j]

ContourLists ==
    {[i \in DOMAIN s |-> Catalogue[s[i]]] :
        s \in {t \in UNION {[1 .. n -> 1 .. Len(Catalogue)] : n \in 0 .. MaxContours} : Injective(t)}}

\* A card image: its size and the contours found in its region.
Image(cols, rows, contours) == [cols |-> cols, rows |-> rows, contours |-> contours]

\* The card image of 800 x 980 whose region is 200 x 280, with the two
\* rectangles A = (10,10)-(40,70) and B = (10,85)-(35,120).
RectA == Contour("box", 10, 10, 40, 70)
RectB == Contour("box", 10, 85, 35, 120)
ScenarioImage == Image(800, 980, <<RectA, RectB>>)

Images == {Image(32, 49, cs) : cs \in ContourLists} \cup {ScenarioImage}

\* --------------------------------------------------------------- the state
VARIABLES
    enableShowResult,   \* field: display the results
    rng,                \* field: the colour generator's state
    src,                \* field: the region image
    drawing,            \* field: the overlay canvas, as the list of what is drawn on it
    rank, suit,         \* fields: the sub-images
    rankBrXPosition,    \* field
    rankBrYPosition,    \* field
    windows,            \* the named windows that are open
    input,              \* the argument of the last extract() call
    ret,                \* the value it returned
    calls,              \* the number of extract() calls made
    rankIdx, suitIdx,   \* the index i at which the rank / suit loop of the last call broke (0: it did not)
    suitTried,          \* the indices the suit loop of the last call evaluated
    extractMask,        \* findSubImages' local extractMask when the last call returned
    repeated,           \* the last call had the argument of the call before it
    before              \* what the object held, and the value last returned, when the last call was made

vars == <<enableShowResult, rng, src, drawing, rank, suit, rankBrXPosition, rankBrYPosition,
          windows, input, ret, calls, rankIdx, suitIdx, suitTried, extractMask, repeated, before>>

\* The object as a record.
Self ==
    [enableShowResult |-> enableShowResult, rng |-> rng, src |-> src, drawing |-> drawing,
     rank |-> rank, suit |-> suit, rankBrXPosition |-> rankBrXPosition,
     rankBrYPosition |-> rankBrYPosition, windows |-> windows]

NoImage == [cols |-> 0, rows |-> 0, contours |-> <<>>]

\* The named windows that are open.
NoWindows == {}

\* Extractor::Extractor(enableShowResult): the RNG it seeds is a local; the
\* fields keep their default values.
Extractor(flag) ==
    [enableShowResult |-> flag, rng |-> 0, src |-> NoImage, drawing |-> <<>>,
     rank |-> EmptyMat, suit |-> EmptyMat, rankBrXPosition |-> NoPosition,
     rankBrYPosition |-> NoPosition, windows |-> NoWindows]

\* ------------------------------------------------------------ extract: crop
\* Mat(input, Rect(0, 0, input.cols / 4, input.rows / 3.5)): the Rect's
\* height is the double rows / 3.5 truncated to int.
Region(img) == [cols |-> img.cols \div 4, rows |-> (2 * img.rows) \div 7, contours |-> img.contours]

\* The value of the region image's pixel at p.
PixelAt(region, p) == 1 + p[1] + region.cols * p[2]

\* --------------------------------------------------------------- cv::Mat
RegionPositions(region) == (0 .. region.cols - 1) \X (0 .. region.rows - 1)

\* src.clone(): a copy of every pixel of the region image.
clone(region) == [p \in RegionPositions(region) |-> PixelAt(region, p)]

\* src.copyTo(dst, mask): dst has src's size and type and keeps its data;
\* the pixels at the mask's non-zero positions are overwritten with src's.
copyTo(region, dst, mask) ==
    [p \in DOMAIN dst |-> IF p \in mask THEN PixelAt(region, p) ELSE dst[p]]

\* imageROI(boundRect[i]): the sub-matrix at a rectangle.
crop(image, r) == [rect |-> r, pix |-> [p \in RectPositions(r) |-> image[p]]]

\* Lines 106-108 and 137-139: imageROI = src.clone(); src.copyTo(imageROI,
\* extractMask); the sub-image is imageROI(boundRect[i]).
SubImage(region, mask, r) == crop(copyTo(region, clone(region), mask), r)

\* ------------------------------------------------------------- the filters
Height(c) == 0 - boundingRect(c).tl.y + boundingRect(c).br.y
Width(c) == 0 - boundingRect(c).tl.x + boundingRect(c).br.x

\* Area with the height left out of the product.
Area_width_only(region) == region.cols

\* Line 83: int area = src.cols * src.rows.
Area(region) == region.cols * region.rows

\* RankFilter with the bottom bound made strict (>= where the code has >).
RankFilter_strict_bottom(c, region) ==
    ~ (\/ Height(c) * Width(c) < Area(region) \div 10
       \/ Height(c) \div Width(c) > 4
       \/ Height(c) \div Width(c) < 1
       \/ boundingRect(c).br.x > (3 * region.cols) \div 4
       \/ boundingRect(c).br.y >= (3 * region.rows) \div 4)

\* Lines 94-96: the condition under which the rank loop does not `continue`.
RankFilter(c, region) ==
    ~ (\/ Height(c) * Width(c) < Area(region) \div 10
       \/ Height(c) \div Width(c) > 4
       \/ Height(c) \div Width(c) < 1
       \/ boundingRect(c).br.x > (3 * region.cols) \div 4
       \/ boundingRect(c).br.y > (3 * region.rows) \div 4)

\* Line 129: the condition under which the suit loop does not `continue`.
SuitFilter(c, region, rankX, rankY) ==
    ~ (\/ Height(c) * Width(c) < Area(region) \div 25
       \/ Height(c) \div Width(c) > 4
       \/ Height(c) \div Width(c) < 1
       \/ boundingRect(c).br.y <= rankY + ERROR_MARGIN
       \/ boundingRect(c).br.x >= rankX + region.cols \div 6)

\* The index at which a loop `for i: if (!pass(i)) continue; else {...; break;}`
\* breaks, 0 when it runs to the end.
FirstIndex(passes) ==
    IF \E i \in DOMAIN passes : passes[i]
    THEN CHOOSE i \in DOMAIN passes : passes[i] /\ \A j \in 1 .. i - 1 : ~ passes[j]
    ELSE 0

\* Lines 86-116: the rank loop.
RankIndex(contours, region) ==
    FirstIndex([i \in DOMAIN contours |-> RankFilter(contours[i], region)])

\* Lines 123-147: the suit loop.
SuitIndex(contours, region, rankX, rankY) ==
    FirstIndex([i \in DOMAIN contours |-> SuitFilter(contours[i], region, rankX, rankY)])

\* ---------------------------------------------------------------- colours
\* Scalar(rng.uniform(0, 256), rng.uniform(0, 256), rng.uniform(0, 256)):
\* three draws, each advancing the generator.
Color(r) == <<r, (r + 1) % RngPeriod, (r + 2) % RngPeriod>>
AfterColor(r) == (r + 3) % RngPeriod

\* Lines 111-113 and 142-144: the contour and its rectangle drawn in a colour.
Drawn(c, r) == [rect |-> boundingRect(c), color |-> Color(r)]

\* ------------------------------------------------------------- showResult
\* showResult releasing the suit image once it has been displayed.
showResult_releases_suit(self) ==
    [self EXCEPT !.windows = {"source_window", "contour_window", "rank_window", "suit_window"},
                 !.suit = EmptyMat]

\* Lines 41-51: the four windows are opened and show src, drawing, rank and
\* suit; waitKey() returns when a key is pressed.
showResult(self) ==
    [self EXCEPT !.windows = {"source_window", "contour_window", "rank_window", "suit_window"}]

\* ----------------------------------------------------------- findSubImages
\* Lines 80 and 100-113 applied to the object: the canvas reset, and what the
\* rank loop's else-branch writes at index ri, given the mask line 104 drew.
AfterRankLoop(self, contours, ri, mask) ==
    IF ri = 0 THEN [self EXCEPT !.drawing = <<>>]
    ELSE [self EXCEPT
            !.rankBrYPosition = boundingRect(contours[ri]).br.y,
            !.rankBrXPosition = boundingRect(contours[ri]).br.x,
            !.rank = SubImage(self.src, mask, boundingRect(contours[ri])),
            !.drawing = <<Drawn(contours[ri], self.rng)>>,
            !.rng = AfterColor(self.rng)]

\* Lines 133-144 applied to the object: what the suit loop's else-branch
\* writes at index si, given the mask line 135 drew.
AfterSuitLoop(self, contours, si, mask) ==
    IF si = 0 THEN self
    ELSE [self EXCEPT
            !.suit = SubImage(self.src, mask, boundingRect(contours[si])),
            !.drawing = Append(self.drawing, Drawn(contours[si], self.rng)),
            !.rng = AfterColor(self.rng)]

\* Lines 148-151.
AfterShow(self) ==
    IF ~ Empty(self.rank) /\ ~ Empty(self.suit) /\ self.enableShowResult
    THEN showResult(self) ELSE self

\* Lines 61-152.  The result is the object with what the call observed: the
\* loop indices, the indices the suit loop evaluated, and the final mask.
findSubImages(self) ==
    LET contours == self.src.contours
        ri == RankIndex(contours, self.src)
        \* line 81: extractMask starts zeroed; line 104 draws on it
        mask1 == IF ri = 0 THEN {} ELSE drawContours({}, contours[ri])
        s1 == AfterRankLoop(self, contours, ri, mask1)
    IN  IF s1.rankBrYPosition < 0
        THEN [self |-> s1, rankIdx |-> ri, suitIdx |-> 0, suitTried |-> {}, extractMask |-> mask1]
        ELSE LET si == SuitIndex(contours, self.src, s1.rankBrXPosition, s1.rankBrYPosition)
                 \* line 135 draws on the same extractMask
                 mask2 == IF si = 0 THEN mask1 ELSE drawContours(mask1, contours[si])
                 s2 == AfterSuitLoop(s1, contours, si, mask2)
             IN  [self |-> AfterShow(s2), rankIdx |-> ri, suitIdx |-> si,
                  suitTried |-> IF si = 0 THEN DOMAIN contours ELSE 1 .. si,
                  extractMask |-> mask2]

\* ----------------------------------------------------------------- extract
\* Line 35: return !(rank.empty() || suit.empty()).
Returned(self) == ~ (Empty(self.rank) \/ Empty(self.suit))

\* extract with the returned flag computed before findSubImages has run.
extract_flag_first(self, img) ==
    LET found == findSubImages([self EXCEPT !.src = Region(img)])
    IN  [self |-> found.self, ret |-> Returned(self), rankIdx |-> found.rankIdx,
         suitIdx |-> found.suitIdx, suitTried |-> found.suitTried,
         extractMask |-> found.extractMask]

\* Lines 30-36.  src_gray, the grey and blurred region, is read only by
\* Canny and is represented by the region's contour list.
extract(self, img) ==
    LET found == findSubImages([self EXCEPT !.src = Region(img)])
    IN  [self |-> found.self, ret |-> Returned(found.self), rankIdx |-> found.rankIdx,
         suitIdx |-> found.suitIdx, suitTried |-> found.suitTried,
         extractMask |-> found.extractMask]

\* ------------------------------------------------------------ the machine
\* What a call can read of the object it is made on: src is assigned at line
\* 31 and drawing at line 80 before anything reads them.
Carried(self) == [self EXCEPT !.src = NoImage, !.drawing = <<>>]

Init ==
    /\ enableShowResult \in BOOLEAN
    /\ rng = Extractor(enableShowResult).rng
    /\ src = Extractor(enableShowResult).src
    /\ drawing = Extractor(enableShowResult).drawing
    /\ rank = Extractor(enableShowResult).rank
    /\ suit = Extractor(enableShowResult).suit
    /\ rankBrXPosition = Extractor(enableShowResult).rankBrXPosition
    /\ rankBrYPosition = Extractor(enableShowResult).rankBrYPosition
    /\ windows = Extractor(enableShowResult).windows
    /\ input = NoImage
    /\ ret = FALSE
    /\ calls = 0
    /\ rankIdx = 0
    /\ suitIdx = 0
    /\ suitTried = {}
    /\ extractMask = {}
    /\ repeated = FALSE
    /\ before = [self |-> Carried(Extractor(enableShowResult)), ret |-> FALSE]

\* A caller calls extract(img) on the instance.
Extract(img) ==
    /\ calls < MaxCalls
    /\ \E r \in {extract(Self, img)} :
           /\ enableShowResult' = r.self.enableShowResult
           /\ rng' = r.self.rng
           /\ src' = r.self.src
           /\ drawing' = r.self.drawing
           /\ rank' = r.self.rank
           /\ suit' = r.self.suit
           /\ rankBrXPosition' = r.self.rankBrXPosition
           /\ rankBrYPosition' = r.self.rankBrYPosition
           /\ windows' = r.self.windows
           /\ ret' = r.ret
           /\ rankIdx' = r.rankIdx
           /\ suitIdx' = r.suitIdx
           /\ suitTried' = r.suitTried
           /\ extractMask' = r.extractMask
    /\ input' = img
    /\ calls' = calls + 1
    /\ repeated' = (calls > 0 /\ img = input)
    /\ before' = [self |-> Carried(Self), ret |-> ret]

Next == \E img \in Images : Extract(img)

Spec == Init /\ [][Next]_vars

\* ================================================================ claims
\* The filters as the specification words them, over a contour's bounding
\* corners and the region's width W and height H.
BoxHeight(c) == c.br.y - c.tl.y
BoxWidth(c) == c.br.x - c.tl.x

RankAccepts(c, W, H) ==
    /\ BoxHeight(c) * BoxWidth(c) >= (W * H) \div 10
    /\ 1 <= BoxHeight(c) \div BoxWidth(c)
    /\ BoxHeight(c) \div BoxWidth(c) <= 4
    /\ c.br.x <= (3 * W) \div 4
    /\ c.br.y <= (3 * H) \div 4

SuitAccepts(c, W, H, rankX, rankY) ==
    /\ BoxHeight(c) * BoxWidth(c) >= (W * H) \div 25
    /\ 1 <= BoxHeight(c) \div BoxWidth(c)
    /\ BoxHeight(c) \div BoxWidth(c) <= 4
    /\ c.br.y > rankY + ERROR_MARGIN
    /\ c.br.x < rankX + W \div 6

\* The lowest index of the last call's contour list that the rank filter
\* accepts, 0 if there is none.
LowestRank ==
    LET ok == {i \in DOMAIN src.contours : RankAccepts(src.contours[i], src.cols, src.rows)}
    IN  IF ok = {} THEN 0 ELSE CHOOSE i \in ok : \A j \in ok : i <= j

\* The lowest index the suit filter accepts for a rank corner, 0 if none.
LowestSuit(rankX, rankY) ==
    LET ok == {i \in DOMAIN src.contours :
                 SuitAccepts(src.contours[i], src.cols, src.rows, rankX, rankY)}
    IN  IF ok = {} THEN 0 ELSE CHOOSE i \in ok : \A j \in ok : i <= j

Called == calls >= 1

\* C1: a call's flag and sub-images are those a fresh instance with the same
\* display flag gives for the same input, whatever calls came before.
C1_IndependentOfHistory ==
    Called =>
        LET fresh == extract(Extractor(enableShowResult), input)
        IN  /\ ret = fresh.ret
            /\ rank = fresh.self.rank
            /\ suit = fresh.self.suit

\* C2: a call whose region has no contours returns false and leaves both the
\* rank and the suit sub-image empty, whatever calls came before.
C2_NoContoursFails ==
    (Called /\ src.contours = <<>>) => (ret = FALSE /\ Empty(rank) /\ Empty(suit))

\* C3: a call in which no contour passes the rank filter evaluates no contour
\* against the suit filter, does not write suit, and returns false.
C3_NoRankSkipsSuit ==
    (Called /\ LowestRank = 0) =>
        (suitTried = {} /\ suitIdx = 0 /\ suit = before.self.suit /\ ret = FALSE)

\* C4: a call in which a contour passes the rank filter and none passes the
\* suit filter for that rank's bottom-right corner returns false.
C4_NoSuitFails ==
    (/\ Called
     /\ LowestRank # 0
     /\ LowestSuit(src.contours[LowestRank].br.x, src.contours[LowestRank].br.y) = 0)
        => ret = FALSE

\* C5 as stated: on a fresh instance the 200 x 280 region with rectangles A
\* and B has A pass the rank filter and B the suit filter, and extract
\* returns true with rank cropped to A's box and suit to B's.
C5_ScenarioSucceeds ==
    (calls = 1 /\ input = ScenarioImage) =>
        /\ RankAccepts(RectA, src.cols, src.rows)
        /\ SuitAccepts(RectB, src.cols, src.rows, RectA.br.x, RectA.br.y)
        /\ ret = TRUE
        /\ rank.rect = boundingRect(RectA)
        /\ suit.rect = boundingRect(RectB)

\* C5 as amended: in that scenario A and B meet the ratio and position
\* conditions but not the area ones (1800 < 5600 and 875 < 2240); on a fresh
\* instance neither loop breaks, extract returns false and both sub-images
\* stay empty.
C5_ScenarioFails ==
    (calls = 1 /\ input = ScenarioImage) =>
        /\ src.cols = 200 /\ src.rows = 280
        /\ BoxHeight(RectA) * BoxWidth(RectA) < (src.cols * src.rows) \div 10
        /\ BoxHeight(RectA) \div BoxWidth(RectA) = 2
        /\ RectA.br.x <= (3 * src.cols) \div 4 /\ RectA.br.y <= (3 * src.rows) \div 4
        /\ BoxHeight(RectB) * BoxWidth(RectB) < (src.cols * src.rows) \div 25
        /\ BoxHeight(RectB) \div BoxWidth(RectB) = 1
        /\ RectB.br.y > RectA.br.y + ERROR_MARGIN /\ RectB.br.x < RectA.br.x + src.cols \div 6
        /\ rankIdx = 0 /\ suitIdx = 0 /\ suitTried = {}
        /\ ret = FALSE /\ Empty(rank) /\ Empty(suit)

C5_Witness == calls = 1 /\ input = ScenarioImage /\ ret = FALSE /\ src.contours = <<RectA, RectB>>

\* C6: calling extract again with the input of the last call returns the
\* same flag and leaves the same rank, suit and rank position; and a call
\* that did repeat the input of the call before it changed none of them.
C6_Idempotent ==
    Called =>
        /\ LET again == extract(Self, input)
           IN  /\ again.ret = ret
               /\ again.self.rank = rank
               /\ again.self.suit = suit
               /\ again.self.rankBrXPosition = rankBrXPosition
               /\ again.self.rankBrYPosition = rankBrYPosition
        /\ repeated =>
               /\ ret = before.ret
               /\ rank = before.self.rank
               /\ suit = before.self.suit
               /\ rankBrXPosition = before.self.rankBrXPosition
               /\ rankBrYPosition = before.self.rankBrYPosition

C6_Witness == repeated /\ ret = TRUE /\ rankIdx # 0 /\ suitIdx # 0

\* C7: the last call returned the flag and left the rank, the suit and the
\* rank position that the same call gives on the same object with the
\* display flag inverted.
C7_DisplayChangesNothing ==
    Called =>
        LET other == extract([before.self EXCEPT !.enableShowResult = ~ enableShowResult], input)
        IN  /\ other.ret = ret
            /\ other.self.rank = rank
            /\ other.self.suit = suit
            /\ other.self.rankBrXPosition = rankBrXPosition
            /\ other.self.rankBrYPosition = rankBrYPosition

C7_Witness == Called /\ enableShowResult /\ windows # {} /\ before.self.windows = {} /\ ret = TRUE

\* The mask positions that line 104 drew for the rank of the last call.
RankMask == IF rankIdx = 0 THEN {} ELSE src.contours[rankIdx].outline

\* C8: a sub-image written by the last call is zero at every position of
\* its bounding box outside the selected polygon, and the mask used for the
\* suit holds nothing drawn for the rank.
C8_MaskedToPolygon ==
    /\ (Called /\ rankIdx # 0) =>
           \A p \in RectPositions(rank.rect) \ Inside(src.contours[rankIdx]) : rank.pix[p] = 0
    /\ (Called /\ suitIdx # 0) =>
           /\ \A p \in RectPositions(suit.rect) \ Inside(src.contours[suitIdx]) : suit.pix[p] = 0
           /\ extractMask \cap (RankMask \ src.contours[suitIdx].outline) = {}

\* C9: the rank loop of a call breaks at the lowest index the rank filter
\* accepts, recording that contour's bottom-right corner and cropping rank to
\* its box; when the filter accepts none, the loop does not break and
\* rank and the recorded position are left as they were.
C9_RankFirstMatch ==
    Called =>
        /\ rankIdx = LowestRank
        /\ rankIdx # 0 =>
               /\ rankBrXPosition = src.contours[rankIdx].br.x
               /\ rankBrYPosition = src.contours[rankIdx].br.y
               /\ rank.rect = [tl |-> src.contours[rankIdx].tl, br |-> src.contours[rankIdx].br]
        /\ rankIdx = 0 =>
               /\ rank = before.self.rank
               /\ rankBrXPosition = before.self.rankBrXPosition
               /\ rankBrYPosition = before.self.rankBrYPosition

\* A call that rejected a contour one row beyond the bottom bound and then
\* accepted one whose bottom is exactly 3 * regionHeight / 4.
C9_Witness ==
    /\ Called /\ rankIdx = 2
    /\ src.contours[1].br.y = (3 * src.rows) \div 4 + 1
    /\ RankAccepts([src.contours[1] EXCEPT !.br.y = @ - 1, !.tl.y = @ - 1], src.cols, src.rows)
    /\ src.contours[2].br.y = (3 * src.rows) \div 4
    /\ src.contours[2].br.x = (3 * src.cols) \div 4

\* C10: whenever a call writes suit, its rank loop broke too, and the suit
\* contour is the lowest index the suit filter accepts for the bottom-right
\* corner of that call's rank contour; it is not the rank contour and its
\* bottom edge is below the rank's.
C10_SuitFirstMatch ==
    (Called /\ suitIdx # 0) =>
        /\ rankIdx # 0
        /\ suitIdx = LowestSuit(src.contours[rankIdx].br.x, src.contours[rankIdx].br.y)
        /\ suitIdx # rankIdx
        /\ src.contours[suitIdx].br.y > src.contours[rankIdx].br.y

====
